---- MODULE Spec2Model ----
(***************************************************************************)
(* Model of TwoFactorBackupContract (src/lib.rs): a Soroban contract that  *)
(* stores one RecoveryData per user in instance storage and drives it      *)
(* through register_backup / initiate_recovery / complete_recovery.        *)
(*                                                                         *)
(* Every contract invocation is one atomic action: a panic! anywhere in    *)
(* the invocation rolls back every storage write of that invocation, so a  *)
(* failing call leaves the storage variables unchanged.                    *)
(*                                                                         *)
(* u64 and u32 are modelled at a reduced width: the values 0..U64Max and   *)
(* 0..U32Max stand for the full ranges, U64Max and U32Max for u64::MAX and *)
(* u32::MAX.  `+` and `+= 1` on these types either panic on overflow       *)
(* (profile built with overflow-checks) or wrap modulo 2^w (profile built  *)
(* without); the build profile is not part of src/, so it is a choice made *)
(* in Init and fixed for the whole behaviour.                              *)
(***************************************************************************)
EXTENDS Integers, FiniteSets, Sequences, TLC

\* ---- bounds of the model -------------------------------------------------
U64Max == 2
U32Max == 2

Users == {"u1", "u2"}
Admins == {"a1", "a2"}
\* caller-supplied opaque material
Backups == {"b1", "b2"}
Nonces == {"n1", "n2"}

U64 == 0..U64Max
U32 == 0..U32Max

\* the argument tuples the entry points are invoked with: every u64 period and
\* every u32 max_attempts, each with one of the two admins / opaque blobs
InitializeArgs ==
    {<<IF period % 2 = 0 THEN "a1" ELSE "a2", period>> : period \in U64}

RegisterArgs ==
    {<<IF max_attempts % 2 = 0 THEN "b1" ELSE "b2",
       IF max_attempts % 2 = 0 THEN "n1" ELSE "n2",
       max_attempts>> : max_attempts \in U32}

None == "none"

VARIABLES
    overflowChecks,   \* build profile: TRUE = arithmetic overflow panics
    admin,            \* instance storage, key ADMIN: <<>> absent, <<a>> present
    defaultTimelock,  \* instance storage, key DFLT_LOCK: <<>> absent, <<p>> present
    store,            \* instance storage, keys DataKey::UserRecovery(user)
    now,              \* env.ledger().timestamp()
    last,             \* the most recent invocation: operation, user, outcome
    ret,              \* value returned by the most recent invocation
    initiatedAt,      \* history: ledger time of each pending initiation
    events,           \* the contract events published so far (env.events())
    completions       \* history: successful completions per user, counted
                      \* up to U32Max + 1

vars == <<overflowChecks, admin, defaultTimelock, store, now, last, ret, initiatedAt,
          events, completions>>

\* ---- RecoveryData ---------------------------------------------------------
RecoveryData ==
    [user_address : Users, encrypted_backup : Backups, recovery_nonce : Nonces,
     timelock_expiry : U64, recovery_initiated : BOOLEAN,
     recovery_attempts : U32, max_attempts : U32]

\* Option<T>: <<>> is None, <<v>> is Some(v)
Option(T) == {<<>>} \cup {<<v>> : v \in T}

\* env.storage().instance().has(&key) for key = DataKey::UserRecovery(user)
has_WrongKey(user) == FALSE

has(user) == user \in DOMAIN store

\* user.require_auth(): auth tells whether the invocation carries the user's
\* authorization; without it the invocation aborts
require_auth_Skipped(auth) == TRUE

require_auth(auth) == auth

\* ---- arithmetic of the fixed-width types ----------------------------------
\* current_time + default_timelock on u64: <<>> is the overflow panic
AddU64Wrapping(a, b) == <<(a + b) % (U64Max + 1)>>

AddU64(a, b) ==
    IF a + b > U64Max
    THEN IF overflowChecks THEN <<>> ELSE AddU64Wrapping(a, b)
    ELSE <<a + b>>

\* recovery_attempts += 1 on u32: <<>> is the overflow panic
IncU32(a) ==
    IF a + 1 > U32Max
    THEN IF overflowChecks THEN <<>> ELSE <<(a + 1) % (U32Max + 1)>>
    ELSE <<a + 1>>

\* ---- outcome of an invocation ---------------------------------------------
Call(op, user, result) == [op |-> op, user |-> user, result |-> result]

\* panic!: the invocation aborts and every storage write of it is discarded
Fail(op, user, result) ==
    /\ last' = Call(op, user, result)
    /\ ret' = <<>>
    /\ UNCHANGED <<overflowChecks, admin, defaultTimelock, store, now, initiatedAt, events, completions>>

TypeOK ==
    /\ overflowChecks \in BOOLEAN
    /\ admin \in Option(Admins)
    /\ defaultTimelock \in Option(U64)
    /\ DOMAIN store \subseteq Users
    /\ \A u \in DOMAIN store : store[u] \in RecoveryData /\ store[u].user_address = u
    /\ now \in U64
    /\ ret \in Option(RecoveryData)
    /\ DOMAIN initiatedAt \subseteq DOMAIN store
    /\ \A u \in DOMAIN initiatedAt : initiatedAt[u] \in U64
    /\ events \in Seq([user_address : Users, timestamp : U64, successful : BOOLEAN])
    /\ DOMAIN completions = DOMAIN store
    /\ \A u \in DOMAIN completions : completions[u] \in 0..(U32Max + 1)

Init ==
    /\ overflowChecks \in BOOLEAN
    /\ admin = <<>>
    /\ defaultTimelock = <<>>
    /\ store = <<>>
    /\ now = 0
    /\ last = Call(None, None, None)
    /\ ret = <<>>
    /\ initiatedAt = <<>>
    /\ events = <<>>
    /\ completions = <<>>

Put_DropsOthers(f, k, v) == [x \in {k} |-> v]

\* f with key k set to v (storage set: insert or overwrite)
Put(f, k, v) == [x \in DOMAIN f \cup {k} |-> IF x = k THEN v ELSE f[x]]

Remove(f, k) == [x \in DOMAIN f \ {k} |-> f[x]]

\* ---- the ledger clock -----------------------------------------------------
Tick ==
    /\ \E t \in U64 : t > now /\ now' = t
    /\ UNCHANGED <<overflowChecks, admin, defaultTimelock, store, last, ret, initiatedAt, events, completions>>

\* ---- initialize(admin, default_timelock_period) ---------------------------
initialize_Overwrites(a, period) ==
    /\ admin' = <<a>>
    /\ defaultTimelock' = <<period>>
    /\ last' = Call("initialize", None, "Ok")
    /\ ret' = <<>>
    /\ UNCHANGED <<overflowChecks, store, now, initiatedAt, events, completions>>

initialize(a, period) ==
    IF admin # <<>>
    THEN Fail("initialize", None, "AlreadyConfigured")
    ELSE /\ admin' = <<a>>
         /\ defaultTimelock' = <<period>>
         /\ last' = Call("initialize", None, "Ok")
         /\ ret' = <<>>
         /\ UNCHANGED <<overflowChecks, store, now, initiatedAt, events, completions>>

\* ---- register_backup(user, encrypted_backup, recovery_nonce, max_attempts)
NewRecoveryData(user, encrypted_backup, recovery_nonce, max_attempts) ==
    [user_address |-> user,
     encrypted_backup |-> encrypted_backup,
     recovery_nonce |-> recovery_nonce,
     timelock_expiry |-> 0,
     recovery_initiated |-> FALSE,
     recovery_attempts |-> 0,
     max_attempts |-> max_attempts]

register_backup_NoConfigRead(user, auth, encrypted_backup, recovery_nonce, max_attempts) ==
    IF ~require_auth(auth) THEN Fail("register", user, "Unauthorized")
    ELSE IF has(user) THEN Fail("register", user, "AlreadyRegistered")
    ELSE /\ store' = Put(store, user,
                         NewRecoveryData(user, encrypted_backup, recovery_nonce, max_attempts))
         /\ completions' = Put(completions, user, 0)
         /\ last' = Call("register", user, "Ok")
         /\ ret' = <<>>
         /\ UNCHANGED <<overflowChecks, admin, defaultTimelock, now, initiatedAt, events>>

register_backup(user, auth, encrypted_backup, recovery_nonce, max_attempts) ==
    IF ~require_auth(auth) THEN Fail("register", user, "Unauthorized")
    ELSE IF has(user) THEN Fail("register", user, "AlreadyRegistered")
    ELSE IF defaultTimelock = <<>> THEN Fail("register", user, "NotConfigured")
    ELSE /\ store' = Put(store, user,
                         NewRecoveryData(user, encrypted_backup, recovery_nonce, max_attempts))
         /\ completions' = Put(completions, user, 0)
         /\ last' = Call("register", user, "Ok")
         /\ ret' = <<>>
         /\ UNCHANGED <<overflowChecks, admin, defaultTimelock, now, initiatedAt, events>>

\* ---- initiate_recovery(user) ----------------------------------------------
initiate_recovery(user, auth) ==
    IF ~require_auth(auth) THEN Fail("initiate", user, "Unauthorized")
    ELSE IF ~has(user) THEN Fail("initiate", user, "NotRegistered")
    ELSE IF store[user].recovery_initiated THEN Fail("initiate", user, "AlreadyInitiated")
    ELSE IF defaultTimelock = <<>> THEN Fail("initiate", user, "NotConfigured")
    ELSE LET expiry == AddU64(now, defaultTimelock[1]) IN
         IF expiry = <<>> THEN Fail("initiate", user, "ArithmeticOverflow")
         ELSE /\ store' = Put(store, user,
                              [store[user] EXCEPT !.timelock_expiry = expiry[1],
                                                  !.recovery_initiated = TRUE])
              /\ initiatedAt' = Put(initiatedAt, user, now)
              /\ last' = Call("initiate", user, "Ok")
              /\ ret' = <<>>
              /\ UNCHANGED <<overflowChecks, admin, defaultTimelock, now, events, completions>>

\* ---- complete_recovery(user) -> RecoveryData ------------------------------
\* RecoveryEvent { user_address, timestamp, successful: true }
RecoveryEvent(user, timestamp) ==
    [user_address |-> user, timestamp |-> timestamp, successful |-> TRUE]

\* the history count of completions, which stops at U32Max + 1
CountUp(n) == IF n > U32Max THEN n ELSE n + 1

TimelockNotExpired_OffByOne(current_time, recovery_data) ==
    current_time + 1 < recovery_data.timelock_expiry

TimelockNotExpired_Inclusive(current_time, recovery_data) ==
    current_time <= recovery_data.timelock_expiry

\* current_time < recovery_data.timelock_expiry
TimelockNotExpired(current_time, recovery_data) ==
    current_time < recovery_data.timelock_expiry

\* recovery_data.recovery_attempts > recovery_data.max_attempts, after the += 1
MaxAttemptsExceeded(recovery_attempts, recovery_data) ==
    recovery_attempts > recovery_data.max_attempts

CompletedRecoveryData_KeepsExpiry(recovery_data, recovery_attempts) ==
    [recovery_data EXCEPT !.recovery_attempts = recovery_attempts,
                          !.recovery_initiated = FALSE]

CompletedRecoveryData_ResetsCeiling(recovery_data, recovery_attempts) ==
    [recovery_data EXCEPT !.recovery_attempts = recovery_attempts,
                          !.recovery_initiated = FALSE,
                          !.timelock_expiry = 0,
                          !.max_attempts = recovery_attempts]

CompletedRecoveryData_NoIncrement(recovery_data, recovery_attempts) ==
    [recovery_data EXCEPT !.recovery_initiated = FALSE,
                          !.timelock_expiry = 0]

\* the record complete_recovery writes back and returns
CompletedRecoveryData(recovery_data, recovery_attempts) ==
    [recovery_data EXCEPT !.recovery_attempts = recovery_attempts,
                          !.recovery_initiated = FALSE,
                          !.timelock_expiry = 0]

complete_recovery(user, auth) ==
    IF ~require_auth(auth) THEN Fail("complete", user, "Unauthorized")
    ELSE IF ~has(user) THEN Fail("complete", user, "NotRegistered")
    ELSE IF ~store[user].recovery_initiated THEN Fail("complete", user, "NotInitiated")
    ELSE IF TimelockNotExpired(now, store[user])
    THEN Fail("complete", user, "TimelockNotExpired")
    ELSE LET attempts == IncU32(store[user].recovery_attempts) IN
         IF attempts = <<>> THEN Fail("complete", user, "ArithmeticOverflow")
         ELSE IF MaxAttemptsExceeded(attempts[1], store[user])
         THEN Fail("complete", user, "MaxAttemptsExceeded")
         ELSE LET recovery_data == CompletedRecoveryData(store[user], attempts[1])
                  \* built at lines 169-173 and dropped: nothing publishes it
                  recovery_event == RecoveryEvent(user, now)
              IN
              /\ store' = Put(store, user, recovery_data)
              /\ initiatedAt' = Remove(initiatedAt, user)
              /\ completions' = Put(completions, user, CountUp(completions[user]))
              /\ last' = Call("complete", user, "Ok")
              /\ ret' = <<recovery_data>>
              /\ UNCHANGED <<overflowChecks, admin, defaultTimelock, now, events>>

\* ---- the contract's entry points, with their inputs -----------------------
Initialize == \E args \in InitializeArgs : initialize(args[1], args[2])

RegisterBackup ==
    \E user \in Users, auth \in BOOLEAN, args \in RegisterArgs :
        register_backup(user, auth, args[1], args[2], args[3])

InitiateRecovery == \E user \in Users, auth \in BOOLEAN : initiate_recovery(user, auth)

CompleteRecovery == \E user \in Users, auth \in BOOLEAN : complete_recovery(user, auth)

Next == Tick \/ Initialize \/ RegisterBackup \/ InitiateRecovery \/ CompleteRecovery

Spec == Init /\ [][Next]_vars

\* the invocations that carry the user's authorization
LiveNext ==
    \/ Tick
    \/ Initialize
    \/ \E user \in Users, args \in RegisterArgs :
           register_backup(user, TRUE, args[1], args[2], args[3])
    \/ \E user \in Users : initiate_recovery(user, TRUE)
    \/ \E user \in Users : complete_recovery(user, TRUE)

\* the ledger clock keeps advancing and every user keeps retrying
\* complete_recovery with their authorization
LiveSpec ==
    /\ Init
    /\ [][LiveNext]_vars
    /\ WF_vars(Tick)
    /\ \A user \in Users : WF_vars(complete_recovery(user, TRUE))

\* ---- shorthands for the properties ----------------------------------------
Registered(u) == u \in DOMAIN store

Pending(u) == Registered(u) /\ store[u].recovery_initiated

Idle(u) == Registered(u) /\ ~store[u].recovery_initiated

Succeeded(op, u) == last = Call(op, u, "Ok")

Failed(op, u, kind) == last = Call(op, u, kind)

\* C1: whenever complete_recovery(user) succeeds, the ledger time of that call
\* is at least the ledger time of the initiation it completes plus the
\* configured default timelock period.
C1_TimelockRespected ==
    [][\A u \in Users :
          (complete_recovery(u, TRUE) /\ Succeeded("complete", u)') =>
              /\ u \in DOMAIN initiatedAt
              /\ now >= initiatedAt[u] + defaultTimelock[1]]_vars

\* C2: complete_recovery on a pending record whose timelock has expired and
\* whose recovery_attempts + 1 exceeds max_attempts fails with
\* MaxAttemptsExceeded and leaves the stored record exactly as it was.
C2_ExceededLeavesRecord ==
    [][\A u \in Users :
          (/\ complete_recovery(u, TRUE)
           /\ Pending(u)
           /\ now >= store[u].timelock_expiry
           /\ store[u].recovery_attempts + 1 > store[u].max_attempts) =>
              /\ Failed("complete", u, "MaxAttemptsExceeded")'
              /\ store' = store]_vars

\* C3: once a record is pending with recovery_attempts = max_attempts, no
\* operation and no clock advance changes that record again, and every later
\* complete_recovery and initiate_recovery on it fails.
C3_TerminalTrap ==
    [][\A u \in Users :
          (Pending(u) /\ store[u].recovery_attempts = store[u].max_attempts) =>
              /\ u \in DOMAIN store'
              /\ store'[u] = store[u]
              /\ \A auth \in BOOLEAN :
                     /\ complete_recovery(u, auth) => last'.result # "Ok"
                     /\ initiate_recovery(u, auth) => last'.result # "Ok"]_vars

\* C4 as stated: for every stored record, recovery_initiated = FALSE exactly
\* when timelock_expiry = 0.
C4_Lockstep ==
    \A u \in DOMAIN store :
        (store[u].recovery_initiated = FALSE) <=> (store[u].timelock_expiry = 0)

\* C4 (amended): for every stored record, recovery_initiated = FALSE implies
\* timelock_expiry = 0, and a pending record has timelock_expiry = 0 only when
\* the sum now + default timelock of its initiation is 0 modulo 2^64.
C4_LockstepAmended ==
    \A u \in DOMAIN store :
        /\ ~store[u].recovery_initiated => store[u].timelock_expiry = 0
        /\ (store[u].recovery_initiated /\ store[u].timelock_expiry = 0) =>
               /\ u \in DOMAIN initiatedAt
               /\ (initiatedAt[u] + defaultTimelock[1]) % (U64Max + 1) = 0

C4_Witness ==
    \E u, v \in DOMAIN store :
        /\ Idle(u) /\ store[u].recovery_attempts > 0 /\ store[u].timelock_expiry = 0
        /\ Pending(v) /\ store[v].timelock_expiry > 0

\* C5: a complete_recovery on a pending record with now >= timelock_expiry and
\* recovery_attempts + 1 <= max_attempts succeeds, stores recovery_attempts + 1,
\* recovery_initiated = FALSE and timelock_expiry = 0 with the other fields
\* unchanged, and returns the stored record.
C5_CompletionEffect ==
    [][\A u \in Users :
          (/\ complete_recovery(u, TRUE)
           /\ Pending(u)
           /\ now >= store[u].timelock_expiry
           /\ store[u].recovery_attempts + 1 <= store[u].max_attempts) =>
              /\ Succeeded("complete", u)'
              /\ u \in DOMAIN store'
              /\ store'[u].recovery_attempts = store[u].recovery_attempts + 1
              /\ store'[u].recovery_initiated = FALSE
              /\ store'[u].timelock_expiry = 0
              /\ store'[u].user_address = store[u].user_address
              /\ store'[u].encrypted_backup = store[u].encrypted_backup
              /\ store'[u].recovery_nonce = store[u].recovery_nonce
              /\ store'[u].max_attempts = store[u].max_attempts
              /\ ret' = <<store'[u]>>]_vars

C5_Witness ==
    \E u \in DOMAIN store :
        /\ Succeeded("complete", u)
        /\ ret = <<store[u]>>
        /\ store[u].recovery_attempts = 2
        /\ Idle(u)

\* C6: an authorized register_backup on a user that already has a record fails
\* with AlreadyRegistered, whatever the state of the record and the arguments,
\* and leaves the stored records unchanged.
C6_RegisterTwice ==
    [][\A u \in Users, args \in RegisterArgs :
          (register_backup(u, TRUE, args[1], args[2], args[3]) /\ Registered(u)) =>
              /\ Failed("register", u, "AlreadyRegistered")'
              /\ store' = store]_vars

C6_Witness ==
    \E u \in DOMAIN store :
        /\ Failed("register", u, "AlreadyRegistered")
        /\ Pending(u)
        /\ store[u].recovery_attempts = store[u].max_attempts

\* C7: an authorized initiate_recovery succeeds exactly when a record exists
\* and recovery_initiated = FALSE; with no record it fails with NotRegistered
\* and creates none; on a pending record it fails with AlreadyInitiated at
\* every ledger time and leaves the record unchanged.
C7_InitiateOutcome ==
    [][\A u \in Users :
          initiate_recovery(u, TRUE) =>
              /\ Succeeded("initiate", u)' <=> Idle(u)
              /\ ~Registered(u) =>
                     Failed("initiate", u, "NotRegistered")' /\ store' = store
              /\ Pending(u) =>
                     Failed("initiate", u, "AlreadyInitiated")' /\ store' = store]_vars

\* C8: complete_recovery on a pending record while now < timelock_expiry fails
\* with TimelockNotExpired and leaves the record unchanged.
C8_BeforeExpiry ==
    [][\A u \in Users :
          (/\ complete_recovery(u, TRUE)
           /\ Pending(u)
           /\ now < store[u].timelock_expiry) =>
              /\ Failed("complete", u, "TimelockNotExpired")'
              /\ store' = store]_vars

C8_Witness ==
    \E u \in DOMAIN store :
        /\ Failed("complete", u, "TimelockNotExpired")
        /\ Pending(u)
        /\ now + 1 = store[u].timelock_expiry
        /\ store[u].recovery_attempts < store[u].max_attempts

\* C9: register_backup, initiate_recovery and complete_recovery invoked
\* without the user's authorization fail with Unauthorized and change nothing
\* in storage, in every state of the record and at every ledger time.
C9_UnauthorizedNoChange ==
    [][\A u \in Users :
          /\ (\E args \in RegisterArgs : register_backup(u, FALSE, args[1], args[2], args[3])) =>
                 /\ Failed("register", u, "Unauthorized")'
                 /\ UNCHANGED <<admin, defaultTimelock, store>>
          /\ initiate_recovery(u, FALSE) =>
                 /\ Failed("initiate", u, "Unauthorized")'
                 /\ UNCHANGED <<admin, defaultTimelock, store>>
          /\ complete_recovery(u, FALSE) =>
                 /\ Failed("complete", u, "Unauthorized")'
                 /\ UNCHANGED <<admin, defaultTimelock, store>>]_vars

C9_Witness ==
    \E u \in DOMAIN store :
        /\ Failed("complete", u, "Unauthorized")
        /\ Pending(u)
        /\ now >= store[u].timelock_expiry
        /\ store[u].recovery_attempts < store[u].max_attempts

\* C10: recovery_attempts of a record never decreases, and it changes only in
\* a successful complete_recovery on that user, where it grows by exactly 1.
C10_AttemptsMonotone ==
    [][\A u \in DOMAIN store :
          /\ u \in DOMAIN store'
          /\ store'[u].recovery_attempts >= store[u].recovery_attempts
          /\ store'[u].recovery_attempts # store[u].recovery_attempts =>
                 /\ complete_recovery(u, TRUE)
                 /\ Succeeded("complete", u)'
                 /\ store'[u].recovery_attempts = store[u].recovery_attempts + 1]_vars

\* C11: a record, once stored, is never removed or replaced: in every step
\* every stored record stays stored and keeps its user_address,
\* encrypted_backup, recovery_nonce and max_attempts.
C11_RegistrationFrame ==
    [][\A u \in DOMAIN store :
          /\ u \in DOMAIN store'
          /\ store'[u].user_address = store[u].user_address
          /\ store'[u].encrypted_backup = store[u].encrypted_backup
          /\ store'[u].recovery_nonce = store[u].recovery_nonce
          /\ store'[u].max_attempts = store[u].max_attempts]_vars

C11_Witness ==
    \E u, v \in DOMAIN store :
        /\ u # v
        /\ store[u].encrypted_backup # store[v].encrypted_backup
        /\ Succeeded("complete", u)
        /\ store[u].recovery_attempts < store[u].max_attempts
        /\ Pending(v)

\* C12: initialize succeeds exactly when no configuration exists; a later
\* initialize fails with AlreadyConfigured; once set, admin and the default
\* timelock period are changed by no step.
C12_ConfigureOnce ==
    [][/\ \A args \in InitializeArgs :
              initialize(args[1], args[2]) =>
                  /\ Succeeded("initialize", None)' <=> admin = <<>>
                  /\ admin # <<>> => Failed("initialize", None, "AlreadyConfigured")'
       /\ admin # <<>> =>
              /\ admin' = admin
              /\ defaultTimelock' = defaultTimelock]_vars

C12_Witness ==
    /\ Failed("initialize", None, "AlreadyConfigured")
    /\ admin # <<>>
    /\ defaultTimelock # <<>>
    /\ DOMAIN store # {}

\* the results an authorized invocation of each operation can end with
ResultsOf(op) ==
    CASE op = "register" -> {"Ok", "AlreadyRegistered", "NotConfigured"}
      [] op = "initiate" -> {"Ok", "NotRegistered", "AlreadyInitiated", "NotConfigured",
                             "ArithmeticOverflow"}
      [] op = "complete" -> {"Ok", "NotRegistered", "NotInitiated", "TimelockNotExpired",
                             "MaxAttemptsExceeded", "ArithmeticOverflow"}

\* an operation on user u
OperationOn(u) ==
    \/ \E auth \in BOOLEAN, args \in RegisterArgs :
           register_backup(u, auth, args[1], args[2], args[3])
    \/ \E auth \in BOOLEAN : initiate_recovery(u, auth)
    \/ \E auth \in BOOLEAN : complete_recovery(u, auth)

\* the authorized operation op on user v would end with result r
WouldEndWith(op, v, r) ==
    CASE op = "register" ->
             ENABLED (register_backup(v, TRUE, "b1", "n1", 0) /\ last'.result = r)
      [] op = "initiate" -> ENABLED (initiate_recovery(v, TRUE) /\ last'.result = r)
      [] op = "complete" -> ENABLED (complete_recovery(v, TRUE) /\ last'.result = r)

\* the result the authorized operation op on user v would end with
ResultOf(op, v) == CHOOSE r \in ResultsOf(op) : WouldEndWith(op, v, r)

\* the step creates, removes or modifies the record of user v
RecordChanged(v) ==
    \/ (v \in DOMAIN store') # (v \in DOMAIN store)
    \/ v \in DOMAIN store /\ v \in DOMAIN store' /\ store'[v] # store[v]

C14_CompletionEvent ==
    [][/\ \A u \in Users :
              (complete_recovery(u, TRUE) /\ Succeeded("complete", u)') =>
                  events' = Append(events, RecoveryEvent(u, now))
       /\ (~\E u \in Users : complete_recovery(u, TRUE) /\ Succeeded("complete", u)') =>
              events' = events]_vars

\* C15: an authorized register_backup on a user without a record succeeds and
\* stores the fresh record whatever the state of the configuration, also when
\* initialize was never called; its only failure is AlreadyRegistered.
C15_RegisterIgnoresConfig ==
    [][\A u \in Users, args \in RegisterArgs :
          register_backup(u, TRUE, args[1], args[2], args[3]) =>
              /\ Registered(u) => Failed("register", u, "AlreadyRegistered")'
              /\ ~Registered(u) =>
                     /\ Succeeded("register", u)'
                     /\ u \in DOMAIN store'
                     /\ store'[u].encrypted_backup = args[1]
                     /\ store'[u].recovery_nonce = args[2]
                     /\ store'[u].max_attempts = args[3]
                     /\ store'[u].recovery_attempts = 0
                     /\ store'[u].recovery_initiated = FALSE
                     /\ store'[u].timelock_expiry = 0]_vars

\* C16: for every record recovery_attempts <= max_attempts, and
\* recovery_attempts is the number of successful completions of that user
\* since registration, so that number never exceeds max_attempts.
C16_AttemptCeiling ==
    \A u \in DOMAIN store :
        /\ store[u].recovery_attempts <= store[u].max_attempts
        /\ store[u].recovery_attempts = completions[u]
        /\ completions[u] <= store[u].max_attempts

\* C18: an authorized initiate_recovery on an idle record succeeds and stores
\* timelock_expiry = now + default timelock period, the exact sum, for every
\* ledger time and period of the u64 range.
C18_ExactExpiry ==
    [][\A u \in Users :
          (initiate_recovery(u, TRUE) /\ Idle(u)) =>
              /\ Succeeded("initiate", u)'
              /\ store'[u].timelock_expiry = now + defaultTimelock[1]
              /\ store'[u].recovery_initiated]_vars

\* C19: complete_recovery reports the first failing precondition in the order
\* NotRegistered, NotInitiated, TimelockNotExpired, MaxAttemptsExceeded; in
\* particular at the attempt ceiling an idle record gives NotInitiated and a
\* pending one TimelockNotExpired before expiry, MaxAttemptsExceeded from
\* expiry on.
C19_ErrorOrder ==
    [][\A u \in Users :
          complete_recovery(u, TRUE) =>
              /\ ~Registered(u) => Failed("complete", u, "NotRegistered")'
              /\ Idle(u) => Failed("complete", u, "NotInitiated")'
              /\ (Pending(u) /\ now < store[u].timelock_expiry) =>
                     Failed("complete", u, "TimelockNotExpired")'
              /\ (/\ Pending(u)
                  /\ now >= store[u].timelock_expiry
                  /\ store[u].recovery_attempts >= store[u].max_attempts) =>
                     Failed("complete", u, "MaxAttemptsExceeded")']_vars

\* C20: whenever a record is stored, the configuration (admin and default
\* timelock period) is set, and initiate_recovery never finds it missing.
C20_RecordImpliesConfig ==
    /\ DOMAIN store # {} => (admin # <<>> /\ defaultTimelock # <<>>)
    /\ \A u \in Users : ~Failed("initiate", u, "NotConfigured")

C20_Witness ==
    \E u \in DOMAIN store :
        /\ Succeeded("initiate", u)
        /\ Pending(u)
        /\ store[u].timelock_expiry = now + defaultTimelock[1]
        /\ defaultTimelock[1] > 0

\* C17: an authorized complete_recovery on a pending record with
\* recovery_attempts < max_attempts succeeds at every ledger time
\* now >= timelock_expiry, now = timelock_expiry included; and with an
\* advancing clock and fair retrying, such a record eventually is idle again
\* with recovery_attempts one higher.
C17_Completable ==
    /\ [][\A u \in Users :
             /\ (/\ complete_recovery(u, TRUE)
                 /\ Pending(u)
                 /\ store[u].recovery_attempts < store[u].max_attempts
                 /\ now >= store[u].timelock_expiry) =>
                    Succeeded("complete", u)'
             /\ (/\ Pending(u)
                 /\ store[u].recovery_attempts < store[u].max_attempts
                 /\ Idle(u)') =>
                    store'[u].recovery_attempts = store[u].recovery_attempts + 1]_vars
    /\ \A u \in Users :
           (Pending(u) /\ store[u].recovery_attempts < store[u].max_attempts)
               ~> Idle(u)

\* With overflow checks and the longest period the only initiation is at
\* ledger time 0 and expires at U64Max: the completion happened at
\* now = timelock_expiry exactly.
C17_Witness ==
    \E u \in DOMAIN store :
        /\ Succeeded("complete", u)
        /\ Idle(u)
        /\ store[u].recovery_attempts > 0
        /\ overflowChecks
        /\ defaultTimelock = <<U64Max>>
        /\ now = U64Max

====
